---- MODULE Spec2Model ----
(***************************************************************************)
(* nodedup: the aggregation and duplicate-detection engine of              *)
(* src/src/parser.rs (find_duplicate_dependencies and what it calls), the  *)
(* manifest discovery of src/src/lookup.rs (get_package_json_files), and   *)
(* the pure functions of parser.rs applied to inputs of their own.         *)
(*                                                                         *)
(* Strings are sequences of one-character strings, so that clean_version,  *)
(* get_versions and parse_ignores are computed character by character.     *)
(***************************************************************************)
EXTENDS Integers, Sequences, FiniteSets, TLC

\* ------------------------------------------------------------------ bounds

\* Longest list of manifest paths handed to find_duplicate_dependencies.
\* Most names find_duplicate_dependencies returns to main.
MaxDuplicates == 257

\* Longest ignore list given to get_package_json_files.
MaxIgnores == 2

\* Longest string given to a pure function called on its own.
MaxLen == 5

MaxManifests == 3

\* ------------------------------------------------------------- characters

Digits == {"0", "1", "2", "3", "4", "5", "6", "7", "8", "9"}

\* char::to_digit(10) as str::parse::<u32> uses it.
DigitVal(c) ==
    CASE c = "0" -> 0 [] c = "1" -> 1 [] c = "2" -> 2 [] c = "3" -> 3
      [] c = "4" -> 4 [] c = "5" -> 5 [] c = "6" -> 6 [] c = "7" -> 7
      [] c = "8" -> 8 [] c = "9" -> 9

\* char::is_whitespace, on the characters the model uses.
IsWhitespace(c) == c \in {" ", "\t", "\n", "\r"}

\* u32::MAX = 4294967295 as its decimal digits: the value does not fit the
\* model checker's integers, so u32 values are kept as digit sequences
\* without leading zeros (zero is the empty sequence).
U32MaxDigits == <<4, 2, 9, 4, 9, 6, 7, 2, 9, 5>>

RECURSIVE StripLeadingZeros(_)
StripLeadingZeros(ds) ==
    IF ds # <<>> /\ ds[1] = 0 THEN StripLeadingZeros(Tail(ds)) ELSE ds

RECURSIVE LexGt(_, _)
\* a > b for digit sequences of the same length.
LexGt(a, b) ==
    IF a = <<>> THEN FALSE
    ELSE IF a[1] # b[1] THEN a[1] > b[1]
    ELSE LexGt(Tail(a), Tail(b))

\* a > b on numbers held as digit sequences without leading zeros.
NumGt(a, b) ==
    \/ Len(a) > Len(b)
    \/ Len(a) = Len(b) /\ LexGt(a, b)

\* -------------------------------------------------------- pure functions

\* A decimal digit that is not ASCII: ARABIC-INDIC DIGIT THREE, one
\* character, written by its code point.
ArabicIndicThree == "U+0663"

\* char::is_numeric() instead of char::is_ascii_digit().
IsKeptChar_Numeric(c) == c = "." \/ c \in Digits \/ c = ArabicIndicThree

\* The predicate of clean_version's filter.
IsKeptChar(c) == c = "." \/ c \in Digits

\* Only one leading range character (^, ~, ...) is stripped.
CleanVersion_StripPrefix(version_str) ==
    IF version_str # <<>> /\ ~IsKeptChar(version_str[1])
    THEN Tail(version_str) ELSE version_str

CleanVersion(version_str) == SelectSeq(version_str, IsKeptChar)

\* Index of the first occurrence of c in s, 0 when there is none.
FirstIndex(s, c) ==
    IF \E i \in 1..Len(s) : s[i] = c
    THEN CHOOSE i \in 1..Len(s) : s[i] = c /\ \A j \in 1..(i - 1) : s[j] # c
    ELSE 0

RECURSIVE SplitDot(_)
\* str::split('.'): always at least one part, empty parts included.
SplitDot(s) ==
    LET i == FirstIndex(s, ".")
    IN  IF i = 0 THEN <<s>>
        ELSE <<SubSeq(s, 1, i - 1)>> \o SplitDot(SubSeq(s, i + 1, Len(s)))

\* str::parse::<u32>(): Err on the empty string, on a sign alone, on any
\* character that is not a digit (one leading '+' is accepted), and on a
\* value above u32::MAX.
ParseU32(part) ==
    LET body == IF part # <<>> /\ part[1] = "+" THEN Tail(part) ELSE part
        allDigits == \A i \in 1..Len(body) : body[i] \in Digits
        ds == StripLeadingZeros([i \in 1..Len(body) |-> DigitVal(body[i])])
    IN  IF body = <<>> \/ ~allDigits THEN [ok |-> FALSE, val |-> <<>>]
        ELSE IF NumGt(ds, U32MaxDigits) THEN [ok |-> FALSE, val |-> <<>>]
        ELSE [ok |-> TRUE, val |-> ds]

\* parts.next().unwrap_or("0").parse().unwrap_or(0) for the n-th part.
Component(parts, n) ==
    LET text == IF n <= Len(parts) THEN parts[n] ELSE <<"0">>
        r == ParseU32(text)
    IN  IF r.ok THEN r.val ELSE <<>>

GetVersions(version) ==
    LET parts == SplitDot(version)
    IN  <<Component(parts, 1), Component(parts, 2), Component(parts, 3)>>

\* The comparison made against the last record instead of the first.
IsNewVersionHigher_LastRecord(version, entry) ==
    IF entry = <<>> THEN FALSE
    ELSE LET old == GetVersions(entry[Len(entry)].version)
             new == GetVersions(version)
         IN  \/ NumGt(new[1], old[1])
             \/ new[1] = old[1] /\ NumGt(new[2], old[2])
             \/ new[1] = old[1] /\ new[2] = old[2] /\ NumGt(new[3], old[3])

\* The patch comparison made with >= instead of >.
IsNewVersionHigher_NotStrict(version, entry) ==
    IF entry = <<>> THEN FALSE
    ELSE LET old == GetVersions(entry[1].version)
             new == GetVersions(version)
         IN  \/ NumGt(new[1], old[1])
             \/ new[1] = old[1] /\ NumGt(new[2], old[2])
             \/ new[1] = old[1] /\ new[2] = old[2] /\ ~NumGt(old[3], new[3])

\* Of two versions with the same three numbers, the one with more
\* components is the higher.
IsNewVersionHigher_LongerWins(version, entry) ==
    IF entry = <<>> THEN FALSE
    ELSE LET old == GetVersions(entry[1].version)
             new == GetVersions(version)
         IN  \/ NumGt(new[1], old[1])
             \/ new[1] = old[1] /\ NumGt(new[2], old[2])
             \/ new[1] = old[1] /\ new[2] = old[2] /\ NumGt(new[3], old[3])
             \/ /\ new = old
                /\ Len(SplitDot(version)) > Len(SplitDot(entry[1].version))

IsNewVersionHigher(version, entry) ==
    IF entry = <<>> THEN FALSE
    ELSE LET old == GetVersions(entry[1].version)
             new == GetVersions(version)
         IN  \/ NumGt(new[1], old[1])
             \/ new[1] = old[1] /\ NumGt(new[2], old[2])
             \/ new[1] = old[1] /\ new[2] = old[2] /\ NumGt(new[3], old[3])

PackageValue(name, version, path) ==
    [name |-> name, version |-> version, path |-> path]

\* map.entry(key).or_default(): the vector under key, empty when absent.
EntryOrDefault(map, key) == IF key \in DOMAIN map THEN map[key] ELSE <<>>

\* The map with the vector under key replaced (the key added when absent).
WithEntry(map, key, entry) ==
    [k \in DOMAIN map \cup {key} |-> IF k = key THEN entry ELSE map[k]]

\* The duplicate test made on the declared string instead of the cleaned one.
ProcessDependency_RawDedup(key, value_str, map, path) ==
    LET entry == EntryOrDefault(map, key)
        version == CleanVersion(value_str)
        package_value == PackageValue(key, version, path)
    IN  IF \E i \in 1..Len(entry) : entry[i].version = value_str
        THEN WithEntry(map, key, entry)
        ELSE IF IsNewVersionHigher(version, entry)
             THEN WithEntry(map, key, <<package_value>> \o entry)
             ELSE WithEntry(map, key, Append(entry, package_value))

\* insert(0, ..) and push(..) exchanged.
ProcessDependency_Swapped(key, value_str, map, path) ==
    LET entry == EntryOrDefault(map, key)
        version == CleanVersion(value_str)
        package_value == PackageValue(key, version, path)
    IN  IF \E i \in 1..Len(entry) : entry[i].version = version
        THEN WithEntry(map, key, entry)
        ELSE IF IsNewVersionHigher(version, entry)
             THEN WithEntry(map, key, Append(entry, package_value))
             ELSE WithEntry(map, key, <<package_value>> \o entry)

\* A version already recorded takes the path of the latest declaration.
ProcessDependency_OverwriteOrigin(key, value_str, map, path) ==
    LET entry == EntryOrDefault(map, key)
        version == CleanVersion(value_str)
        package_value == PackageValue(key, version, path)
    IN  IF \E i \in 1..Len(entry) : entry[i].version = version
        THEN WithEntry(map, key,
                 [i \in 1..Len(entry) |->
                     IF entry[i].version = version THEN package_value
                     ELSE entry[i]])
        ELSE IF IsNewVersionHigher(version, entry)
             THEN WithEntry(map, key, <<package_value>> \o entry)
             ELSE WithEntry(map, key, Append(entry, package_value))

\* A version that is not higher than the first record is not pushed: the
\* entry made by or_default() stays as it is.
ProcessDependency_SkipLower(key, value_str, map, path) ==
    LET entry == EntryOrDefault(map, key)
        version == CleanVersion(value_str)
        package_value == PackageValue(key, version, path)
    IN  IF \E i \in 1..Len(entry) : entry[i].version = version
        THEN WithEntry(map, key, entry)
        ELSE IF IsNewVersionHigher(version, entry)
             THEN WithEntry(map, key, <<package_value>> \o entry)
             ELSE WithEntry(map, key, entry)

\* A version that is not higher than the first record is dropped, unless
\* it is the first of its name.
ProcessDependency_DropLower(key, value_str, map, path) ==
    LET entry == EntryOrDefault(map, key)
        version == CleanVersion(value_str)
        package_value == PackageValue(key, version, path)
    IN  IF \E i \in 1..Len(entry) : entry[i].version = version
        THEN WithEntry(map, key, entry)
        ELSE IF IsNewVersionHigher(version, entry)
             THEN WithEntry(map, key, <<package_value>> \o entry)
             ELSE IF entry = <<>>
                  THEN WithEntry(map, key, Append(entry, package_value))
                  ELSE WithEntry(map, key, entry)

ProcessDependency(key, value_str, map, path) ==
    LET entry == EntryOrDefault(map, key)
        version == CleanVersion(value_str)
        package_value == PackageValue(key, version, path)
    IN  IF \E i \in 1..Len(entry) : entry[i].version = version
        THEN WithEntry(map, key, entry)
        ELSE IF IsNewVersionHigher(version, entry)
             THEN WithEntry(map, key, <<package_value>> \o entry)
             ELSE WithEntry(map, key, Append(entry, package_value))

\* values.len() > 0 instead of values.len() > 1.
KeepBadValues_KeepSingles(map, ignore_list) ==
    LET ignored(key) == \E i \in 1..Len(ignore_list) : ignore_list[i] = key
        keys_to_remove ==
            {key \in DOMAIN map : ~(Len(map[key]) > 0 /\ ~ignored(key))}
    IN  [key \in DOMAIN map \ keys_to_remove |-> map[key]]

\* The retained sequences lose their first record.
KeepBadValues_OnlyBad(map, ignore_list) ==
    LET ignored(key) == \E i \in 1..Len(ignore_list) : ignore_list[i] = key
        keys_to_remove ==
            {key \in DOMAIN map : ~(Len(map[key]) > 1 /\ ~ignored(key))}
    IN  [key \in DOMAIN map \ keys_to_remove |-> Tail(map[key])]

KeepBadValues(map, ignore_list) ==
    LET ignored(key) == \E i \in 1..Len(ignore_list) : ignore_list[i] = key
        keys_to_remove ==
            {key \in DOMAIN map : ~(Len(map[key]) > 1 /\ ~ignored(key))}
    IN  [key \in DOMAIN map \ keys_to_remove |-> map[key]]

RECURSIVE Lines(_)
\* str::lines(): split after each "\n"; the terminator, and a "\r" before
\* it, are dropped; no empty line follows a final terminator.
Lines(s) ==
    LET i == FirstIndex(s, "\n")
        line == SubSeq(s, 1, i - 1)
        stripped == IF line # <<>> /\ line[Len(line)] = "\r"
                    THEN SubSeq(line, 1, Len(line) - 1) ELSE line
    IN  IF s = <<>> THEN <<>>
        ELSE IF i = 0 THEN <<s>>
        ELSE <<stripped>> \o Lines(SubSeq(s, i + 1, Len(s)))

RECURSIVE TrimStart(_)
TrimStart(s) ==
    IF s # <<>> /\ IsWhitespace(s[1]) THEN TrimStart(Tail(s)) ELSE s

RECURSIVE TrimEnd(_)
TrimEnd(s) ==
    IF s # <<>> /\ IsWhitespace(s[Len(s)])
    THEN TrimEnd(SubSeq(s, 1, Len(s) - 1)) ELSE s

\* str::trim()
Trim(s) == TrimEnd(TrimStart(s))

\* The lines are not trimmed.
ParseIgnores_NoTrim(text) == Lines(text)

ParseIgnores(text) ==
    LET ls == Lines(text) IN [i \in 1..Len(ls) |-> Trim(ls[i])]

\* ignore_file.unwrap_or_default(): the text read, "" on Err.
UnwrapOrDefault(file) == IF file.state = "ok" THEN file.text ELSE <<>>

\* ----------------------------------------------------------------- inputs

NameA == <<"a">>
NameB == <<"b">>

\* Declared version strings, as they stand in a manifest.
Caret_1_0_0 == <<"^", "1", ".", "0", ".", "0">>
Plain_1_0_0 == <<"1", ".", "0", ".", "0">>
Plain_2_0_0 == <<"2", ".", "0", ".", "0">>
Plain_2_1_0 == <<"2", ".", "1", ".", "0">>
Plain_2_1_1 == <<"2", ".", "1", ".", "1">>
Plain_2_0_1 == <<"2", ".", "0", ".", "1">>
Caret_1_3_0 == <<"^", "1", ".", "3", ".", "0">>
Plain_1_10_0 == <<"1", ".", "1", "0", ".", "0">>
Tilde_1_0 == <<"~", "1", ".", "0">>
\* 4294967296.0.0: the major component is u32::MAX + 1.
Plain_Big_0_0 ==
    <<"4", "2", "9", "4", "9", "6", "7", "2", "9", "6", ".", "0", ".", "0">>

\* Ignore-file texts: "a\n" and " b \nc".
IgnoreTexts ==
    { <<"a", "\n">>,
      <<" ", "b", " ", "\n", "c">> }

\* What read_ignores can return.
IgnoreResults ==
    {[state |-> "err"]} \cup {[state |-> "ok", text |-> t] : t \in IgnoreTexts}

\* The io::Error kinds parse_file can return: the file cannot be read
\* (fs::read_to_string), or is not JSON (serde_json::from_str).
ParseErrors == {"NotFound", "InvalidData"}

\* What a manifest field (dependencies, devDependencies) can be:
\* absent, a JSON value that is no object, or an object.
FieldKinds == {"absent", "not_object", "object"}

\* The runs the model explores: each is a universe of dependency names,
\* manifest paths and declared version strings the manifests are made of.
\*   merge:   two names, two manifests paths, a decorated and a plain
\*            spelling of one version (tests it_should_add_two_values,
\*            it_should_skip_same_versions, it_should_return_struct_with_path)
\*   sort:    the five versions of test it_should_sort_correctly
\*   numeric: the versions of test it_should_correctly_sort_versions, a
\*            two-component version and one whose major exceeds u32::MAX
Worlds ==
    { [names |-> {NameA, NameB}, paths |-> {"p1", "p2"},
       versions |-> {Caret_1_0_0, Plain_1_0_0, Plain_2_0_0}],
      [names |-> {NameA}, paths |-> {""},
       versions |-> {Caret_1_0_0, Plain_2_0_0, Plain_2_1_0, Plain_2_1_1,
                     Plain_2_0_1}],
      [names |-> {NameA}, paths |-> {"p1"},
       versions |-> {Caret_1_3_0, Plain_1_10_0, Tilde_1_0, Plain_1_0_0,
                     Plain_Big_0_0}] }

\* ------------------------------------------------------------------ state

VARIABLES
    world,        \* the universe this run's manifests are drawn from
    pc,           \* position in find_duplicate_dependencies
    ignore_file,  \* the Result of read_ignores
    ignores,      \* the Vec parse_ignores returned
    hash_map,     \* name -> Vec<PackageValue>; its domain is the key set
    idx,          \* manifests taken from `paths` so far
    path,         \* the path of the manifest being processed
    kind,         \* what the field being traversed is (FieldKinds)
    seen,         \* keys of the object being traversed already iterated
    last,         \* arguments of the latest process_dependency call of
                  \* the traversal under way
    outcomes,     \* history: the outcome of each parse_file call
    arrivals,     \* history: per name, the first declaration of each
                  \* normalized version, in arrival order
    panic_msg,    \* the fields of the panic message, <<>> when none
    result        \* what find_duplicate_dependencies returned

\* get_package_json_files (lookup.rs)
VARIABLES
    lookup_pc,       \* position in get_package_json_files
    dir_path,        \* its parameter dir_path
    lookup_ignores,  \* its parameter ignores
    stack,           \* the walk: per open directory, the entries to come
    files            \* the paths collected so far

\* One call of a pure function of parser.rs
VARIABLES
    unit_pc,      \* "ready" before the call, "returned" after it
    unit_fn,      \* the function called
    arg,          \* its argument
    ret           \* what it returned

\* main (main.rs)
VARIABLES
    main_pc,         \* position in main
    silent,          \* args.silent
    output,          \* args.output
    duplicates_len,  \* duplicates.len()
    errors,          \* the local `errors`
    platform,        \* the family of the operating system
    exit_status      \* the exit status of the process, -1 while it runs

parser_vars ==
    <<world, pc, ignore_file, ignores, hash_map, idx, path, kind, seen,
      last, outcomes, arrivals, panic_msg, result>>

lookup_vars == <<lookup_pc, dir_path, lookup_ignores, stack, files>>

unit_vars == <<unit_pc, unit_fn, arg, ret>>

main_vars ==
    <<main_pc, silent, output, duplicates_len, errors, platform, exit_status>>

vars == <<parser_vars, lookup_vars, unit_vars, main_vars>>

\* main is not running.
MainIdle ==
    /\ main_pc = "idle"
    /\ silent = FALSE
    /\ output = "default"
    /\ duplicates_len = 0
    /\ errors = 0
    /\ platform = "unix"
    /\ exit_status = -1

\* get_package_json_files is not running.
LookupIdle ==
    /\ lookup_pc = "idle"
    /\ dir_path = <<>>
    /\ lookup_ignores = <<>>
    /\ stack = <<>>
    /\ files = <<>>

\* No pure function is being called on its own.
UnitIdle ==
    /\ unit_pc = "idle"
    /\ unit_fn = "none"
    /\ arg = <<>>
    /\ ret = <<>>

EmptyMap == [k \in {} |-> <<>>]

NoCall == [called |-> FALSE]

Init ==
    /\ world \in Worlds
    /\ pc = "start"
    /\ ignore_file = [state |-> "unread"]
    /\ ignores = <<>>
    /\ hash_map = EmptyMap
    /\ idx = 0
    /\ path = ""
    /\ kind = "absent"
    /\ seen = {}
    /\ last = NoCall
    /\ outcomes = <<>>
    /\ arrivals = [n \in world.names |-> <<>>]
    /\ panic_msg = <<>>
    /\ result = [returned |-> FALSE]
    /\ LookupIdle
    /\ UnitIdle
    /\ MainIdle

\* ---------------------------------------------------------------- actions

\* Result::unwrap() on Err: the panic message is the fixed text and the
\* Debug form of the io::Error, which holds the error kind and no path.
UnwrapPanic(kind_of_error) ==
    <<"called Result::unwrap() on an Err value", kind_of_error>>

\* read_ignores(..).unwrap() instead of unwrap_or_default().
ReadIgnores_Unwrap ==
    /\ pc = "start"
    /\ \E file \in IgnoreResults :
         /\ ignore_file' = file
         /\ ignores' = ParseIgnores(UnwrapOrDefault(file))
         /\ IF file.state = "ok"
            THEN pc' = "loop" /\ panic_msg' = panic_msg
            ELSE pc' = "panicked" /\ panic_msg' = UnwrapPanic("NotFound")
    /\ hash_map' = EmptyMap
    /\ UNCHANGED <<lookup_vars, unit_vars, main_vars>>
    /\ UNCHANGED <<world, idx, path, kind, seen, last, outcomes, arrivals,
                   result>>

\* parser.rs:100-102: read_ignores, unwrap_or_default, parse_ignores, and
\* the empty HashMap.
ReadIgnores ==
    /\ pc = "start"
    /\ \E file \in IgnoreResults :
         /\ ignore_file' = file
         /\ ignores' = ParseIgnores(UnwrapOrDefault(file))
    /\ hash_map' = EmptyMap
    /\ pc' = "loop"
    /\ UNCHANGED <<lookup_vars, unit_vars, main_vars>>
    /\ UNCHANGED <<world, idx, path, kind, seen, last, outcomes, arrivals,
                   panic_msg, result>>

\* build_hash_map traverses devDependencies only.
ParseFileOk_DevFirst ==
    /\ pc = "loop"
    /\ idx < MaxManifests
    /\ \E p \in world.paths, k \in FieldKinds :
         /\ path' = p
         /\ kind' = k
    /\ idx' = idx + 1
    /\ outcomes' = Append(outcomes, "ok")
    /\ seen' = {}
    /\ pc' = "devDeps"
    /\ UNCHANGED <<lookup_vars, unit_vars, main_vars>>
    /\ UNCHANGED <<world, ignore_file, ignores, hash_map, last, arrivals,
                   panic_msg, result>>

\* parser.rs:103-106, Ok: the next path of `paths` is read and decoded, and
\* build_hash_map starts on its `dependencies` field.
ParseFileOk ==
    /\ pc = "loop"
    /\ idx < MaxManifests
    /\ \E p \in world.paths, k \in FieldKinds :
         /\ path' = p
         /\ kind' = k
    /\ idx' = idx + 1
    /\ outcomes' = Append(outcomes, "ok")
    /\ seen' = {}
    /\ pc' = "deps"
    /\ UNCHANGED <<lookup_vars, unit_vars, main_vars>>
    /\ UNCHANGED <<world, ignore_file, ignores, hash_map, last, arrivals,
                   panic_msg, result>>

\* A manifest that fails is skipped and the loop goes on.
ParseFileErr_Skip ==
    /\ pc = "loop"
    /\ idx < MaxManifests
    /\ \E p \in world.paths, e \in ParseErrors :
         /\ path' = p
         /\ outcomes' = Append(outcomes, e)
    /\ idx' = idx + 1
    /\ UNCHANGED <<lookup_vars, unit_vars, main_vars>>
    /\ UNCHANGED <<world, pc, ignore_file, ignores, hash_map, kind, seen,
                   last, arrivals, panic_msg, result>>

\* parser.rs:103-105, Err: parse_file fails and unwrap panics.
ParseFileErr ==
    /\ pc = "loop"
    /\ idx < MaxManifests
    /\ \E p \in world.paths, e \in ParseErrors :
         /\ path' = p
         /\ outcomes' = Append(outcomes, e)
         /\ panic_msg' = UnwrapPanic(e)
    /\ idx' = idx + 1
    /\ pc' = "panicked"
    /\ UNCHANGED <<lookup_vars, unit_vars, main_vars>>
    /\ UNCHANGED <<world, ignore_file, ignores, hash_map, kind, seen, last,
                   arrivals, result>>

\* History: the first declaration of each normalized version of a name,
\* with the string as declared and the manifest it came from.
Arrive(log, key, value_str, p) ==
    LET version == CleanVersion(value_str)
    IN  IF \E i \in 1..Len(log[key]) : log[key][i].version = version
        THEN log
        ELSE [log EXCEPT ![key] =
                 Append(@, [version |-> version, raw |-> value_str, path |-> p])]

\* A pair of devDependencies is pushed at the back without the comparison
\* with the first record.
Declare_DevAppends(key, value_str) ==
    /\ pc \in {"deps", "devDeps"}
    /\ kind = "object"
    /\ key \in world.names \ seen
    /\ value_str \in world.versions
    /\ hash_map' =
         IF pc = "devDeps"
         THEN LET entry == EntryOrDefault(hash_map, key)
                  version == CleanVersion(value_str)
              IN  IF \E i \in 1..Len(entry) : entry[i].version = version
                  THEN WithEntry(hash_map, key, entry)
                  ELSE WithEntry(hash_map, key,
                           Append(entry, PackageValue(key, version, path)))
         ELSE ProcessDependency(key, value_str, hash_map, path)
    /\ seen' = seen \cup {key}
    /\ last' = [called |-> TRUE, key |-> key, value_str |-> value_str]
    /\ arrivals' = Arrive(arrivals, key, value_str, path)
    /\ UNCHANGED <<lookup_vars, unit_vars, main_vars>>
    /\ UNCHANGED <<world, pc, ignore_file, ignores, idx, path, kind,
                   outcomes, panic_msg, result>>

\* parser.rs:41: process_dependency(key, value_str, map, path) on one pair
\* of the object being traversed.
Declare(key, value_str) ==
    /\ pc \in {"deps", "devDeps"}
    /\ kind = "object"
    /\ key \in world.names \ seen
    /\ value_str \in world.versions
    /\ hash_map' = ProcessDependency(key, value_str, hash_map, path)
    /\ seen' = seen \cup {key}
    /\ last' = [called |-> TRUE, key |-> key, value_str |-> value_str]
    /\ arrivals' = Arrive(arrivals, key, value_str, path)
    /\ UNCHANGED <<lookup_vars, unit_vars, main_vars>>
    /\ UNCHANGED <<world, pc, ignore_file, ignores, idx, path, kind,
                   outcomes, panic_msg, result>>

\* parser.rs:40-41: one (key, value) pair of the object whose value is a
\* string.
TraverseString ==
    \E key \in world.names, value_str \in world.versions :
        Declare(key, value_str)

\* parser.rs:40: a pair whose value is no string is dropped by filter_map.
TraverseNonString ==
    /\ pc \in {"deps", "devDeps"}
    /\ kind = "object"
    /\ \E key \in world.names \ seen : seen' = seen \cup {key}
    /\ UNCHANGED <<lookup_vars, unit_vars, main_vars>>
    /\ UNCHANGED <<world, pc, ignore_file, ignores, hash_map, idx, path,
                   kind, last, outcomes, arrivals, panic_msg, result>>

\* parser.rs:32-33: traverse_deps(deps) has ended (at once when the field
\* is absent or no object) and traverse_deps(dev_deps) starts.
EndDeps ==
    /\ pc = "deps"
    /\ \E k \in FieldKinds : kind' = k
    /\ seen' = {}
    /\ last' = NoCall
    /\ pc' = "devDeps"
    /\ UNCHANGED <<lookup_vars, unit_vars, main_vars>>
    /\ UNCHANGED <<world, ignore_file, ignores, hash_map, idx, path,
                   outcomes, arrivals, panic_msg, result>>

\* parser.rs:33-34, 107: traverse_deps(dev_deps) has ended, build_hash_map
\* returns and the loop takes the next path.
EndDevDeps ==
    /\ pc = "devDeps"
    /\ seen' = {}
    /\ last' = NoCall
    /\ pc' = "loop"
    /\ UNCHANGED <<lookup_vars, unit_vars, main_vars>>
    /\ UNCHANGED <<world, ignore_file, ignores, hash_map, idx, path, kind,
                   outcomes, arrivals, panic_msg, result>>

\* parser.rs:108-110: `paths` is exhausted; keep_bad_values filters the map
\* in place and the map is returned.
Finish ==
    /\ pc = "loop"
    /\ hash_map' = KeepBadValues(hash_map, ignores)
    /\ result' = [returned |-> TRUE, map |-> hash_map']
    /\ pc' = "done"
    /\ UNCHANGED <<lookup_vars, unit_vars, main_vars>>
    /\ UNCHANGED <<world, ignore_file, ignores, idx, path, kind, seen, last,
                   outcomes, arrivals, panic_msg>>

Next ==
    \/ ReadIgnores
    \/ ParseFileOk
    \/ ParseFileErr
    \/ TraverseString
    \/ TraverseNonString
    \/ EndDeps
    \/ EndDevDeps
    \/ Finish

Spec == Init /\ [][Next]_vars

\* find_duplicate_dependencies is not running.
ParserIdle ==
    /\ world = [names |-> {}, paths |-> {}, versions |-> {}]
    /\ pc = "idle"
    /\ ignore_file = [state |-> "unread"]
    /\ ignores = <<>>
    /\ hash_map = EmptyMap
    /\ idx = 0
    /\ path = ""
    /\ kind = "absent"
    /\ seen = {}
    /\ last = NoCall
    /\ outcomes = <<>>
    /\ arrivals = <<>>
    /\ panic_msg = <<>>
    /\ result = [returned |-> FALSE]

\* ------------------------------------------------- manifest discovery

PackageJson == <<"p", "a", "c", "k", "a", "g", "e", ".", "j", "s", "o", "n">>
NodeModules == <<"n", "o", "d", "e", "_", "m", "o", "d", "u", "l", "e", "s">>
NoNodeModules == <<"n", "o", "_">> \o NodeModules
Src == <<"s", "r", "c">>
IndexJs == <<"i", "n", "d", "e", "x", ".", "j", "s">>
Scope == <<"@", "s">>
Pkg == <<"p">>
Locked == <<"l">>

\* The directory tree that is walked: the kind of every entry, by the
\* names that lead to it from the root. A "locked" directory cannot be
\* read.
Tree ==
    (<<>> :> "dir")
    @@ (<<PackageJson>> :> "file")
    @@ (<<Src>> :> "dir")
    @@ (<<Src, PackageJson>> :> "file")
    @@ (<<Src, IndexJs>> :> "file")
    @@ (<<Src, NoNodeModules>> :> "dir")
    @@ (<<Src, NoNodeModules, PackageJson>> :> "file")
    @@ (<<Src, Locked>> :> "locked")
    @@ (<<Src, Locked, PackageJson>> :> "file")
    @@ (<<NodeModules>> :> "dir")
    @@ (<<NodeModules, Pkg>> :> "dir")
    @@ (<<NodeModules, Pkg, PackageJson>> :> "file")
    @@ (<<Scope>> :> "dir")
    @@ (<<Scope, PackageJson>> :> "dir")
    @@ (<<Scope, Pkg>> :> "dir")
    @@ (<<Scope, Pkg, PackageJson>> :> "file")

Children(entry) ==
    {e \in DOMAIN Tree :
        Len(e) = Len(entry) + 1 /\ SubSeq(e, 1, Len(entry)) = entry}

\* The values of dir_path: two spellings of the root of Tree, and the
\* empty path, which canonicalize() does not resolve.
Dot == <<".">>
DotSlash == <<".", "/">>
DirPaths == {Dot, DotSlash, <<>>}
Resolves(p) == p \in {Dot, DotSlash}

\* Entries of the ignore list: a bare word found in the path of a
\* manifest, the same after a separator, the name of a scoped package, a
\* fragment that ends inside a file name, and a one-letter package name.
WordSrc == Src
SlashSrc == <<"/">> \o Src
ScopedName == Scope \o <<"/">> \o Pkg
IntoFileName == <<"c", "/", "p">>
IgnoreEntries == {WordSrc, SlashSrc, ScopedName, IntoFileName, NameA}
IgnoreLists == UNION {[1..n -> IgnoreEntries] : n \in 0..MaxIgnores}

\* Path::join
Join(base, name) ==
    IF base = <<>> THEN name
    ELSE IF base[Len(base)] = "/" THEN base \o name
    ELSE base \o <<"/">> \o name

RECURSIVE EntryPath(_, _)
\* DirEntry::path(): dir_path for the root, the parent's path joined with
\* the entry's name below it.
EntryPath(root, entry) ==
    IF entry = <<>> THEN root
    ELSE Join(EntryPath(root, SubSeq(entry, 1, Len(entry) - 1)),
              entry[Len(entry)])

\* str::contains(&str)
Contains(haystack, needle) ==
    \E k \in 0..(Len(haystack) - Len(needle)) :
        SubSeq(haystack, k + 1, k + Len(needle)) = needle

\* str::contains(char)
ContainsChar(str, c) == \E i \in 1..Len(str) : str[i] = c

RECURSIVE SplitSlash(_)
SplitSlash(str) ==
    LET i == FirstIndex(str, "/")
    IN  IF i = 0 THEN <<str>>
        ELSE <<SubSeq(str, 1, i - 1)>> \o SplitSlash(SubSeq(str, i + 1, Len(str)))

\* Path::components() that are Component::Normal.
NormalComponents(p) ==
    LET parts == SplitSlash(p)
    IN  {parts[i] : i \in {j \in 1..Len(parts) :
                              parts[j] \notin {<<>>, <<".">>, <<".", ".">>}}}

\* The text node_modules anywhere in the path.
IsNodeModulesPath_Substring(p) == Contains(p, NodeModules)

IsNodeModulesPath(p) == NodeModules \in NormalComponents(p)

\* A fragment without '/' is applied as well.
FilterEntry_AnyFragment(p, ignore_list) ==
    /\ ~IsNodeModulesPath(p)
    /\ ~\E i \in 1..Len(ignore_list) : Contains(p, ignore_list[i])

\* The closure given to filter_entry.
FilterEntry(p, ignore_list) ==
    /\ ~IsNodeModulesPath(p)
    /\ ~\E i \in 1..Len(ignore_list) :
          ContainsChar(ignore_list[i], "/") /\ Contains(p, ignore_list[i])

RECURSIVE PopDone(_)
\* The walk leaves every directory whose entries have all been taken.
PopDone(frames) ==
    IF frames # <<>> /\ frames[Len(frames)] = {}
    THEN PopDone(SubSeq(frames, 1, Len(frames) - 1))
    ELSE frames

\* The walk after `entry` was taken from the open directory, `below`
\* being the entries it opens.
Taken(entry, below) ==
    LET top == Len(stack)
        rest == [stack EXCEPT ![top] = @ \ {entry}]
    IN  PopDone(IF below = {} THEN rest ELSE Append(rest, below))

\* main.rs:33-37: main gives get_package_json_files the folder and the
\* ignore list, the list it then gives to find_duplicate_dependencies.
InitLookup ==
    /\ ParserIdle
    /\ UnitIdle
    /\ MainIdle
    /\ lookup_pc = "start"
    /\ dir_path \in DirPaths
    /\ lookup_ignores \in IgnoreLists
    /\ stack = <<>>
    /\ files = <<>>

\* lookup.rs:13-15: the path does not resolve and the function panics.
ResolveFails ==
    /\ lookup_pc = "start"
    /\ ~Resolves(dir_path)
    /\ lookup_pc' = "panicked"
    /\ UNCHANGED <<main_vars, parser_vars, unit_vars, dir_path, lookup_ignores, stack,
                   files>>

\* lookup.rs:13-18: the path resolves and the walk starts with the root.
StartWalk ==
    /\ lookup_pc = "start"
    /\ Resolves(dir_path)
    /\ lookup_pc' = "walk"
    /\ stack' = <<{<<>>}>>
    /\ UNCHANGED <<main_vars, parser_vars, unit_vars, dir_path, lookup_ignores, files>>

\* lookup.rs:19-24: filter_entry drops the entry; a directory is not
\* descended into.
Prune(entry) ==
    /\ ~FilterEntry(EntryPath(dir_path, entry), lookup_ignores)
    /\ stack' = Taken(entry, {})
    /\ UNCHANGED <<main_vars, parser_vars, unit_vars, lookup_pc, dir_path,
                   lookup_ignores, files>>

\* lookup.rs:19-26: a directory passes filter_entry, is no file, and the
\* walk goes on with its entries.
Descend(entry) ==
    /\ FilterEntry(EntryPath(dir_path, entry), lookup_ignores)
    /\ Tree[entry] = "dir"
    /\ stack' = Taken(entry, Children(entry))
    /\ UNCHANGED <<main_vars, parser_vars, unit_vars, lookup_pc, dir_path,
                   lookup_ignores, files>>

\* lookup.rs:25-26: a directory that cannot be read: the error the walk
\* yields for it is dropped by filter_map(|e| e.ok()).
Unreadable(entry) ==
    /\ FilterEntry(EntryPath(dir_path, entry), lookup_ignores)
    /\ Tree[entry] = "locked"
    /\ stack' = Taken(entry, {})
    /\ UNCHANGED <<main_vars, parser_vars, unit_vars, lookup_pc, dir_path,
                   lookup_ignores, files>>

\* lookup.rs:26-35: a file named package.json is collected.
Collect(entry) ==
    /\ FilterEntry(EntryPath(dir_path, entry), lookup_ignores)
    /\ Tree[entry] = "file"
    /\ entry[Len(entry)] = PackageJson
    /\ files' = Append(files, EntryPath(dir_path, entry))
    /\ stack' = Taken(entry, {})
    /\ UNCHANGED <<main_vars, parser_vars, unit_vars, lookup_pc, dir_path,
                   lookup_ignores>>

\* lookup.rs:26-33: a file of another name is left out.
NotManifest(entry) ==
    /\ FilterEntry(EntryPath(dir_path, entry), lookup_ignores)
    /\ Tree[entry] = "file"
    /\ entry[Len(entry)] # PackageJson
    /\ stack' = Taken(entry, {})
    /\ UNCHANGED <<main_vars, parser_vars, unit_vars, lookup_pc, dir_path,
                   lookup_ignores, files>>

\* lookup.rs:17-34: the walk yields the next entry, any of those the open
\* directory still holds.
WalkStep ==
    /\ lookup_pc = "walk"
    /\ stack # <<>>
    /\ \E entry \in stack[Len(stack)] :
         \/ Prune(entry)
         \/ Descend(entry)
         \/ Unreadable(entry)
         \/ Collect(entry)
         \/ NotManifest(entry)

\* lookup.rs:35: the walk is over and the paths are returned.
ReturnFiles ==
    /\ lookup_pc = "walk"
    /\ stack = <<>>
    /\ lookup_pc' = "done"
    /\ UNCHANGED <<main_vars, parser_vars, unit_vars, dir_path, lookup_ignores, stack,
                   files>>

NextLookup ==
    \/ ResolveFails
    \/ StartWalk
    \/ WalkStep
    \/ ReturnFiles

SpecLookup == InitLookup /\ [][NextLookup]_vars

\* -------------------------------------- the pure functions on their own

\* The strings over an alphabet, MaxLen characters at most.
Strings(alphabet) == UNION {[1..n -> alphabet] : n \in 0..MaxLen}

\* Raw version strings: digits, dots, range characters, a letter, a digit
\* that is not ASCII.
VersionAlphabet == {"1", ".", "^", "x", ArabicIndicThree}

\* Normalized version strings.
NormalizedAlphabet == {"0", "1", "2", "."}

\* Ignore-file texts.
IgnoreAlphabet == {"a", " ", "\n", "\r"}

\* The sequences given to is_new_version_higher with `version`: the first
\* record has that version or another, and a record may follow.
Entries(version) ==
    {<<PackageValue(NameA, head, "p1")>> \o rest :
        head \in {version, Plain_1_0_0},
        rest \in {<<>>, <<PackageValue(NameA, Plain_2_0_0, "p2")>>}}

\* The value of one pair of a JSON object: a string, or anything else.
StringValue(str) == [is_str |-> TRUE, str |-> str]
OtherValue == [is_str |-> FALSE, str |-> <<>>]
PairValues == {StringValue(Plain_1_0_0), StringValue(Plain_2_0_0), OtherValue}

\* What value.get(field) gives: nothing, a value that is no object, or an
\* object, its pairs in the order its iterator yields them.
AbsentField == [kind |-> "absent", pairs |-> <<>>]
NotObjectField == [kind |-> "not_object", pairs |-> <<>>]
ObjectFields ==
    {[kind |-> "object", pairs |-> pairs] :
        pairs \in {<<>>}
            \cup {<<[key |-> k, value |-> v]>> :
                     k \in {NameA, NameB}, v \in PairValues}
            \cup {<<[key |-> k[1], value |-> v1], [key |-> k[2], value |-> v2]>> :
                     k \in {<<NameA, NameB>>, <<NameB, NameA>>},
                     v1 \in PairValues, v2 \in PairValues}}
FieldValues == {AbsentField, NotObjectField} \cup ObjectFields

\* The decoded manifests given to build_hash_map.
ManifestValues ==
    [dependencies : FieldValues, devDependencies : FieldValues]

\* The maps build_hash_map is called on.
MapsBefore ==
    {EmptyMap, WithEntry(EmptyMap, NameA, <<PackageValue(NameA, Plain_1_0_0, "p1")>>)}

RECURSIVE TraversePairs(_, _, _)
\* parser.rs:39-41: the pairs in turn; one whose value is no string is
\* dropped by filter_map.
TraversePairs(pairs, map, path_str) ==
    IF pairs = <<>> THEN map
    ELSE LET pair == Head(pairs)
         IN  TraversePairs(Tail(pairs),
                 IF pair.value.is_str
                 THEN ProcessDependency(pair.key, pair.value.str, map, path_str)
                 ELSE map,
                 path_str)

\* parser.rs:36-42: deps.and_then(|d| d.as_object()) is None for a field
\* that is absent or no object, and nothing is traversed.
TraverseDeps(deps, map, path_str) ==
    IF deps.kind = "object" THEN TraversePairs(deps.pairs, map, path_str) ELSE map

\* A manifest without `dependencies` is left out altogether.
BuildHashMap_RequireDeps(value, path_str, map) ==
    IF value.dependencies.kind = "absent" THEN map
    ELSE TraverseDeps(value.devDependencies,
                      TraverseDeps(value.dependencies, map, path_str), path_str)

BuildHashMap(value, path_str, map) ==
    TraverseDeps(value.devDependencies,
                 TraverseDeps(value.dependencies, map, path_str), path_str)

\* An object field of the given pairs, each <<name, version string>>.
ObjectOf(pairs) ==
    [kind |-> "object",
     pairs |-> [i \in 1..Len(pairs) |->
                  [key |-> pairs[i][1], value |-> StringValue(pairs[i][2])]]]

\* The decoded manifests find_duplicate_dependencies is given in turn.
ScannedValues ==
    {[dependencies |-> ObjectOf(<<<<NameA, Plain_1_0_0>>>>),
      devDependencies |-> AbsentField],
     [dependencies |-> ObjectOf(<<<<NameA, Caret_1_0_0>>>>),
      devDependencies |-> ObjectOf(<<<<NameB, Plain_2_0_0>>>>)],
     [dependencies |-> ObjectOf(<<<<NameA, Plain_2_0_0>>>>),
      devDependencies |-> ObjectOf(<<<<NameB, Plain_1_0_0>>>>)],
     [dependencies |-> AbsentField,
      devDependencies |-> ObjectOf(<<<<NameA, Tilde_1_0>>>>)],
     [dependencies |-> ObjectOf(<<<<NameB, Plain_2_0_0>>, <<NameA, Plain_2_1_0>>>>),
      devDependencies |-> NotObjectField]}

\* The path of the i-th manifest.
PathName(i) ==
    CASE i = 1 -> "p1" [] i = 2 -> "p2" [] i = 3 -> "p3" [] OTHER -> "p4"

\* The lists of manifests: MaxManifests at most, each with its path and
\* what parse_file decodes from it.
ManifestLists ==
    UNION {{[i \in 1..n |-> [path |-> PathName(i), value |-> values[i]]] :
               values \in [1..n -> ScannedValues]} : n \in 0..MaxManifests}

\* The orders a list can be given in.
Orderings(list) ==
    {[i \in 1..Len(list) |-> list[f[i]]] :
        f \in {g \in [1..Len(list) -> 1..Len(list)] :
                 \A i, j \in 1..Len(list) : g[i] = g[j] => i = j}}

RECURSIVE Aggregate(_, _)
\* parser.rs:102-107: the loop over the paths, each decoded and given to
\* build_hash_map.
Aggregate(manifests, map) ==
    IF manifests = <<>> THEN map
    ELSE Aggregate(Tail(manifests),
                   BuildHashMap(manifests[1].value, manifests[1].path, map))

\* parser.rs:96-111, every manifest readable.
FindDuplicateDependencies(manifests, ignore_list) ==
    KeepBadValues(Aggregate(manifests, EmptyMap), ignore_list)

\* The maps process_dependency is called on: the name has one record or
\* two, the first of version 1.0.0, 1.0 or 0.1.
MapsOfOneName ==
    {WithEntry(EmptyMap, NameA, <<PackageValue(NameA, head, "p1")>> \o rest) :
        head \in {Plain_1_0_0, <<"1", ".", "0">>, <<"0", ".", "1">>},
        rest \in {<<>>, <<PackageValue(NameA, Plain_2_0_0, "p1")>>}}

InitUnit ==
    /\ ParserIdle
    /\ LookupIdle
    /\ MainIdle
    /\ unit_pc = "ready"
    /\ ret = <<>>
    /\ \/ /\ unit_fn = "clean_version"
          /\ arg \in Strings(VersionAlphabet)
       \/ /\ unit_fn = "is_new_version_higher"
          /\ \E version \in Strings(NormalizedAlphabet) \cup {Plain_Big_0_0} :
               \E entry \in Entries(version) :
                   arg = [new_version |-> version, entry |-> entry]
       \/ /\ unit_fn = "parse_ignores"
          /\ arg \in Strings(IgnoreAlphabet)
       \/ /\ unit_fn = "find_duplicate_dependencies"
          /\ \E list \in ManifestLists, ignore_list \in {<<>>, <<NameB>>} :
               \E reordered \in Orderings(list) :
                   arg = [paths |-> list, reordered |-> reordered,
                          ignores |-> ignore_list]
       \/ /\ unit_fn = "process_dependency"
          /\ \E value_str \in Strings(NormalizedAlphabet), map \in MapsOfOneName :
               arg = [key |-> NameA, value_str |-> value_str, map |-> map,
                      path |-> "p2"]
       \/ /\ unit_fn = "build_hash_map"
          /\ \E value \in ManifestValues, map \in MapsBefore :
               arg = [value |-> value, path |-> "p2", map |-> map]

\* parser.rs:67-72: clean_version(arg).
CallCleanVersion ==
    /\ unit_fn = "clean_version"
    /\ unit_pc = "ready"
    /\ ret' = <<CleanVersion(arg)>>
    /\ unit_pc' = "returned"
    /\ UNCHANGED <<main_vars, parser_vars, lookup_vars, unit_fn, arg>>

\* parser.rs:67-72: clean_version of what clean_version returned.
CallCleanVersionAgain ==
    /\ unit_fn = "clean_version"
    /\ unit_pc = "returned"
    /\ Len(ret) = 1
    /\ ret' = Append(ret, CleanVersion(ret[1]))
    /\ UNCHANGED <<main_vars, parser_vars, lookup_vars, unit_pc, unit_fn, arg>>

\* parser.rs:74-85: is_new_version_higher(new_version, entry).
CallIsNewVersionHigher ==
    /\ unit_fn = "is_new_version_higher"
    /\ unit_pc = "ready"
    /\ ret' = <<IsNewVersionHigher(arg.new_version, arg.entry)>>
    /\ unit_pc' = "returned"
    /\ UNCHANGED <<main_vars, parser_vars, lookup_vars, unit_fn, arg>>

\* parser.rs:137-139: parse_ignores(arg).
CallParseIgnores ==
    /\ unit_fn = "parse_ignores"
    /\ unit_pc = "ready"
    /\ ret' = <<ParseIgnores(arg)>>
    /\ unit_pc' = "returned"
    /\ UNCHANGED <<main_vars, parser_vars, lookup_vars, unit_fn, arg>>

\* parser.rs:29-34: build_hash_map(value, path, map).
CallBuildHashMap ==
    /\ unit_fn = "build_hash_map"
    /\ unit_pc = "ready"
    /\ ret' = <<BuildHashMap(arg.value, arg.path, arg.map)>>
    /\ unit_pc' = "returned"
    /\ UNCHANGED <<main_vars, parser_vars, lookup_vars, unit_fn, arg>>

\* parser.rs:96-111: find_duplicate_dependencies on the manifests.
CallFindDuplicateDependencies ==
    /\ unit_fn = "find_duplicate_dependencies"
    /\ unit_pc = "ready"
    /\ ret' = <<FindDuplicateDependencies(arg.paths, arg.ignores)>>
    /\ unit_pc' = "returned"
    /\ UNCHANGED <<main_vars, parser_vars, lookup_vars, unit_fn, arg>>

\* parser.rs:96-111: find_duplicate_dependencies on the same manifests in
\* the other order.
CallFindDuplicateDependenciesReordered ==
    /\ unit_fn = "find_duplicate_dependencies"
    /\ unit_pc = "returned"
    /\ Len(ret) = 1
    /\ ret' = Append(ret, FindDuplicateDependencies(arg.reordered, arg.ignores))
    /\ UNCHANGED <<main_vars, parser_vars, lookup_vars, unit_pc, unit_fn, arg>>

\* parser.rs:44-65: process_dependency(key, value_str, map, path).
CallProcessDependency ==
    /\ unit_fn = "process_dependency"
    /\ unit_pc = "ready"
    /\ ret' = <<ProcessDependency(arg.key, arg.value_str, arg.map, arg.path)>>
    /\ unit_pc' = "returned"
    /\ UNCHANGED <<main_vars, parser_vars, lookup_vars, unit_fn, arg>>

NextUnit ==
    \/ CallCleanVersion
    \/ CallCleanVersionAgain
    \/ CallIsNewVersionHigher
    \/ CallParseIgnores
    \/ CallProcessDependency
    \/ CallBuildHashMap
    \/ CallFindDuplicateDependencies
    \/ CallFindDuplicateDependenciesReordered

SpecUnit == InitUnit /\ [][NextUnit]_vars

\* ------------------------------------------------------------------ main

\* formatter.rs:36: the styles try_set_style accepts.
Styles == {"short", "default", "full"}

\* The values of --output: the styles and one that is none.
Outputs == Styles \cup {"wide"}

\* The families of operating systems the program is built for.
Platforms == {"unix", "windows"}

\* The exit status of a process that panics.
PanicStatus == 101

\* `as i32` on a usize: the value itself below 2^31, which every count
\* of the model is.
AsI32(n) == n

\* std::process::exit(code): the status a parent sees. Unix keeps the
\* eight low bits of the code, Windows all of it.
ExitStatus(system, code) ==
    IF system = "unix" THEN code % 256 ELSE code

\* main.rs:30-38: the arguments are parsed, the folder is scanned and
\* find_duplicate_dependencies has returned `duplicates`.
InitMain ==
    /\ ParserIdle
    /\ LookupIdle
    /\ UnitIdle
    /\ main_pc = "duplicates"
    /\ silent \in BOOLEAN
    /\ output \in Outputs
    /\ duplicates_len \in 0..MaxDuplicates
    /\ errors = 0
    /\ platform \in Platforms
    /\ exit_status = -1

\* main.rs:39: errors = duplicates.len() as i32.
CountErrors ==
    /\ main_pc = "duplicates"
    /\ errors' = AsI32(duplicates_len)
    /\ main_pc' = "format"
    /\ UNCHANGED <<parser_vars, lookup_vars, unit_vars, silent, output,
                   duplicates_len, platform, exit_status>>

\* main.rs:40-43: the style is set and the result printed.
FormatResult ==
    /\ main_pc = "format"
    /\ output \in Styles
    /\ main_pc' = "exit"
    /\ UNCHANGED <<parser_vars, lookup_vars, unit_vars, silent, output,
                   duplicates_len, errors, platform, exit_status>>

\* main.rs:41, formatter.rs:45: try_set_style panics on an unknown style.
UnknownStyle ==
    /\ main_pc = "format"
    /\ output \notin Styles
    /\ main_pc' = "panicked"
    /\ exit_status' = PanicStatus
    /\ UNCHANGED <<parser_vars, lookup_vars, unit_vars, silent, output,
                   duplicates_len, errors, platform>>

\* main.rs:45-47: std::process::exit(0) when args.silent.
ExitSilent ==
    /\ main_pc = "exit"
    /\ silent
    /\ exit_status' = ExitStatus(platform, 0)
    /\ main_pc' = "exited"
    /\ UNCHANGED <<parser_vars, lookup_vars, unit_vars, silent, output,
                   duplicates_len, errors, platform>>

\* main.rs:48: std::process::exit(errors).
ExitErrors ==
    /\ main_pc = "exit"
    /\ ~silent
    /\ exit_status' = ExitStatus(platform, errors)
    /\ main_pc' = "exited"
    /\ UNCHANGED <<parser_vars, lookup_vars, unit_vars, silent, output,
                   duplicates_len, errors, platform>>

NextMain ==
    \/ CountErrors
    \/ FormatResult
    \/ UnknownStyle
    \/ ExitSilent
    \/ ExitErrors

SpecMain == InitMain /\ [][NextMain]_vars

\* ------------------------------------------------- vocabulary of the claims

\* a > b for (major, minor, patch) triples, lexicographically.
TripleGt(a, b) ==
    \/ NumGt(a[1], b[1])
    \/ a[1] = b[1] /\ NumGt(a[2], b[2])
    \/ a[1] = b[1] /\ a[2] = b[2] /\ NumGt(a[3], b[3])

\* Version v ranks strictly above version w.
Above(v, w) == TripleGt(GetVersions(v), GetVersions(w))

VersionsOf(entry) == [i \in 1..Len(entry) |-> entry[i].version]

Recorded(entry, version) == \E i \in 1..Len(entry) : entry[i].version = version

RECURSIVE Reverse(_)
Reverse(s) == IF s = <<>> THEN <<>> ELSE Append(Reverse(Tail(s)), s[1])

RECURSIVE Pick(_, _, _)
\* The elements s[i], i from `from` up, whose index is in idxs, in order.
Pick(s, idxs, from) ==
    IF from > Len(s) THEN <<>>
    ELSE (IF from \in idxs THEN <<s[from]>> ELSE <<>>) \o Pick(s, idxs, from + 1)

\* ---------------------------------------------------------------------- C1
\* C1: a process_dependency call whose normalized version is not yet
\* recorded for the name puts the new record at the front when the sequence
\* is empty or the version ranks strictly above the first record, at the
\* back otherwise; the old records keep content and order, one record is
\* added, and no other name's sequence changes.
C1_Rule(key, value_str) ==
    LET entry == EntryOrDefault(hash_map, key)
        version == CleanVersion(value_str)
        rec == [name |-> key, version |-> version, path |-> path]
    IN  ~Recorded(entry, version) =>
          /\ DOMAIN hash_map' = DOMAIN hash_map \cup {key}
          /\ \A k \in DOMAIN hash_map \ {key} : hash_map'[k] = hash_map[k]
          /\ Len(hash_map'[key]) = Len(entry) + 1
          /\ IF entry = <<>> \/ Above(version, entry[1].version)
             THEN hash_map'[key] = <<rec>> \o entry
             ELSE hash_map'[key] = entry \o <<rec>>

C1_InsertionRule ==
    [][\A key \in world.names, value_str \in world.versions :
          Declare(key, value_str) => C1_Rule(key, value_str)]_vars

\* The latest call appended a version at the back although it ranks above
\* a record that is not the first.
C1_Witness ==
    /\ last.called
    /\ pc \in {"deps", "devDeps"}
    /\ last.key \in DOMAIN hash_map
    /\ LET entry == hash_map[last.key]
       IN  /\ Len(entry) >= 3
           /\ entry[Len(entry)].version = CleanVersion(last.value_str)
           /\ entry[Len(entry)].path = path
           /\ \E i \in 2..(Len(entry) - 1) :
                Above(entry[Len(entry)].version, entry[i].version)

\* ---------------------------------------------------------------------- C2
\* C2: the sequence of a name is the versions that on arrival ranked
\* strictly above every earlier arrival (the first arrival among them), in
\* reverse arrival order, followed by the other distinct versions in
\* arrival order; arrivals 1.0.0, 2.0.0, 2.1.0, 2.1.1, 2.0.1 give
\* [2.1.1, 2.1.0, 2.0.0, 1.0.0, 2.0.1].
Leaders(log) ==
    {i \in 1..Len(log) : \A j \in 1..(i - 1) : Above(log[i].version, log[j].version)}

ClosedForm(log) ==
    LET vs == VersionsOf(log)
    IN  Reverse(Pick(vs, Leaders(log), 1))
          \o Pick(vs, (1..Len(log)) \ Leaders(log), 1)

SortTestArrivals ==
    <<Plain_1_0_0, Plain_2_0_0, Plain_2_1_0, Plain_2_1_1, Plain_2_0_1>>

SortTestExpected ==
    <<Plain_2_1_1, Plain_2_1_0, Plain_2_0_0, Plain_1_0_0, Plain_2_0_1>>

C2_HeadOnlyOrdering ==
    \A n \in DOMAIN hash_map :
        /\ VersionsOf(hash_map[n]) = ClosedForm(arrivals[n])
        /\ VersionsOf(arrivals[n]) = SortTestArrivals
             => VersionsOf(hash_map[n]) = SortTestExpected

\* The run of test it_should_sort_correctly has ended with its result.
C2_Witness ==
    /\ pc = "done"
    /\ NameA \in DOMAIN hash_map
    /\ VersionsOf(arrivals[NameA]) = SortTestArrivals
    /\ VersionsOf(hash_map[NameA]) = SortTestExpected

\* ---------------------------------------------------------------------- C3
\* C3: a name is a key of the mapping find_duplicate_dependencies returns
\* if and only if its aggregated sequence holds more than one record and
\* the name is not in the name-ignore set.
IgnoredNames == {ignores[i] : i \in 1..Len(ignores)}

C3_FinalResult ==
    [][pc = "loop" /\ pc' = "done" =>
         /\ result'.returned
         /\ \A n \in world.names :
              n \in DOMAIN result'.map <=>
                /\ n \in DOMAIN hash_map
                /\ Len(hash_map[n]) > 1
                /\ n \notin IgnoredNames]_vars

\* Returned: b has two versions and is ignored, a has two and is kept.
C3_Witness ==
    /\ pc = "done"
    /\ result.returned
    /\ NameB \in world.names
    /\ NameB \in IgnoredNames
    /\ Len(arrivals[NameB]) > 1
    /\ NameB \notin DOMAIN result.map
    /\ NameA \in DOMAIN result.map

\* ---------------------------------------------------------------------- C4
\* C4: no two records of one name's sequence have equal normalized version
\* strings; a name declared as "^1.0.0" and as "1.0.0" has one record.
C4_ExactStringDedup ==
    \A n \in DOMAIN hash_map :
        /\ \A i, j \in 1..Len(hash_map[n]) :
             hash_map[n][i].version = hash_map[n][j].version => i = j
        /\ Cardinality({i \in 1..Len(hash_map[n]) :
                          hash_map[n][i].version = Plain_1_0_0}) <= 1

\* "1.0.0" was declared in one manifest, "^1.0.0" in another: one record.
C4_Witness ==
    /\ last.called
    /\ last.key \in DOMAIN hash_map
    /\ last.value_str = Caret_1_0_0
    /\ arrivals[last.key][1].raw = Plain_1_0_0
    /\ arrivals[last.key][1].path # path
    /\ Len(hash_map[last.key]) = 1
    /\ hash_map[last.key][1].version = Plain_1_0_0

\* ---------------------------------------------------------------------- C5
\* C5: no record of a sequence ranks strictly above the first record,
\* whatever the order of the rest.
C5_HeadIsMaximum ==
    \A n \in DOMAIN hash_map :
        \A i \in 1..Len(hash_map[n]) :
            ~Above(hash_map[n][i].version, hash_map[n][1].version)

\* A sequence whose tail is not in descending order.
C5_Witness ==
    \E n \in DOMAIN hash_map :
        \E i, j \in 2..Len(hash_map[n]) :
            i < j /\ Above(hash_map[n][j].version, hash_map[n][i].version)

\* ---------------------------------------------------------------------- C6
\* C6: the origin of every record is the path of the first manifest that
\* declared the name with that normalized version, and declaring a recorded
\* (name, version) again leaves the whole aggregate unchanged.
C6_OriginIsFirst ==
    \A n \in DOMAIN hash_map :
        \A i \in 1..Len(hash_map[n]) :
            \E j \in 1..Len(arrivals[n]) :
                /\ arrivals[n][j].version = hash_map[n][i].version
                /\ arrivals[n][j].path = hash_map[n][i].path

C6_FirstSeenOriginWins ==
    /\ []C6_OriginIsFirst
    /\ [][\A key \in world.names, value_str \in world.versions :
            (/\ Declare(key, value_str)
             /\ Recorded(EntryOrDefault(hash_map, key), CleanVersion(value_str)))
            => hash_map' = hash_map]_vars

\* The latest call declared, from p2, a version recorded from p1.
C6_Witness ==
    /\ last.called
    /\ last.key \in DOMAIN hash_map
    /\ path = "p2"
    /\ \E i \in 1..Len(hash_map[last.key]) :
         /\ hash_map[last.key][i].version = CleanVersion(last.value_str)
         /\ hash_map[last.key][i].path = "p1"

\* ---------------------------------------------------------------------- C7
\* C7: for two normalized versions whose first three components are decimal
\* numbers, the new one is judged higher than the head exactly when its
\* (major, minor, patch), read as integers, is lexicographically greater.
DecimalPart(part) ==
    part # <<>> /\ \A i \in 1..Len(part) : part[i] \in Digits

Decimal3(version) ==
    LET parts == SplitDot(version)
    IN  Len(parts) >= 3 /\ \A n \in 1..3 : DecimalPart(parts[n])

\* The integer a decimal numeral denotes, whatever its size.
IntegerOf(part) ==
    StripLeadingZeros([i \in 1..Len(part) |-> DigitVal(part[i])])

IntegerTriple(version) ==
    LET parts == SplitDot(version)
    IN  <<IntegerOf(parts[1]), IntegerOf(parts[2]), IntegerOf(parts[3])>>

C7_Rule(key, value_str) ==
    LET entry == EntryOrDefault(hash_map, key)
        version == CleanVersion(value_str)
    IN  (/\ entry # <<>>
         /\ Decimal3(version)
         /\ Decimal3(entry[1].version))
        => (IsNewVersionHigher(version, entry)
              <=> TripleGt(IntegerTriple(version),
                           IntegerTriple(entry[1].version)))

C7_NumericRanking ==
    [][\A key \in world.names, value_str \in world.versions :
          Declare(key, value_str) => C7_Rule(key, value_str)]_vars

\* ---------------------------------------------------------------------- C8
\* C8: a manifest that cannot be read or decoded, at whatever position,
\* ends the run at once: nothing is processed after it and no mapping, not
\* even a partial one, is returned.
C8_FatalManifestError ==
    \A i \in 1..Len(outcomes) :
        outcomes[i] # "ok" =>
            /\ i = Len(outcomes)
            /\ pc = "panicked"
            /\ ~result.returned

\* The second or a later manifest failed after records were aggregated.
C8_Witness ==
    /\ pc = "panicked"
    /\ Len(outcomes) >= 2
    /\ outcomes[Len(outcomes)] # "ok"
    /\ DOMAIN hash_map # {}
    /\ ~result.returned

\* ---------------------------------------------------------------------- C9
\* C9: the failure that stops the run on a manifest that cannot be read or
\* decoded reports the path of that manifest.
C9_FailureReportsPath ==
    pc = "panicked" => \E i \in 1..Len(panic_msg) : panic_msg[i] = path

\* --------------------------------------------------------------------- C10
\* C10: when the ignore source cannot be read the run does not fail on it
\* and returns what it returns with an empty name-ignore set.
C10_UnreadableIgnoreSource ==
    [][ignore_file'.state = "err" =>
         /\ pc = "start" => pc' = "loop"
         /\ (pc = "loop" /\ pc' = "done") =>
              result' = [returned |-> TRUE,
                         map |-> KeepBadValues(hash_map, <<>>)]]_vars

\* A run whose ignore source was unreadable returned a duplicate.
C10_Witness ==
    /\ pc = "done"
    /\ ignore_file.state = "err"
    /\ result.returned
    /\ NameA \in DOMAIN result.map

\* --------------------------------------------------------------------- C11
\* C11: of the manifests the walk can get to, the returned list leaves out
\* exactly those that lie under node_modules or whose path has, as a
\* substring, an entry of the ignore list that contains '/'; an entry
\* without '/' leaves out none, substring of the path or not. The list
\* holds paths of manifests only, each once.
Manifests ==
    {e \in DOMAIN Tree :
        /\ Tree[e] = "file"
        /\ e[Len(e)] = PackageJson
        /\ \A n \in 0..(Len(e) - 1) : Tree[SubSeq(e, 1, n)] = "dir"}

UnderNodeModules(e) == \E n \in 1..(Len(e) - 1) : e[n] = NodeModules

Excluded(root, e, fragments) ==
    \/ UnderNodeModules(e)
    \/ \E i \in 1..Len(fragments) :
         /\ "/" \in {fragments[i][k] : k \in 1..Len(fragments[i])}
         /\ Contains(EntryPath(root, e), fragments[i])

Discovered(root, fragments) ==
    {EntryPath(root, e) : e \in {m \in Manifests : ~Excluded(root, m, fragments)}}

C11_PathIgnore ==
    lookup_pc = "done" =>
        /\ {files[i] : i \in 1..Len(files)} = Discovered(dir_path, lookup_ignores)
        /\ \A i, j \in 1..Len(files) : files[i] = files[j] => i = j

\* With the entries "src" and "c/p", ./src/package.json is left out and
\* ./src/no_node_modules/package.json is returned.
C11_Witness ==
    /\ lookup_pc = "done"
    /\ dir_path = Dot
    /\ lookup_ignores = <<WordSrc, IntoFileName>>
    /\ \A i \in 1..Len(files) : files[i] # EntryPath(Dot, <<Src, PackageJson>>)
    /\ \E i \in 1..Len(files) :
         files[i] = EntryPath(Dot, <<Src, NoNodeModules, PackageJson>>)

\* --------------------------------------------------------------------- C12
\* C12: an entry of the ignore list that is the name of a dependency does
\* not change which manifests are scanned: the returned manifests are those
\* returned for the list without that entry.
DependencyNames == {NameA, ScopedName}

Without(list, i) == SubSeq(list, 1, i - 1) \o SubSeq(list, i + 1, Len(list))

C12_IndependentMechanisms ==
    lookup_pc = "done" =>
        \A i \in 1..Len(lookup_ignores) :
            lookup_ignores[i] \in DependencyNames =>
                {files[k] : k \in 1..Len(files)}
                    = Discovered(dir_path, Without(lookup_ignores, i))

\* --------------------------------------------------------------------- C13
\* C13: keep_bad_values only removes names: every name of the filtered map
\* was a name of the aggregate, and its sequence is the one it had before,
\* same records in the same order.
C13_PureRemoval ==
    [][Finish =>
         /\ DOMAIN hash_map' \subseteq DOMAIN hash_map
         /\ \A n \in DOMAIN hash_map' : hash_map'[n] = hash_map[n]
         /\ result'.map = hash_map']_vars

\* The filter has removed a name and retained one with three records or
\* more, whose tail is not in descending order.
C13_Witness ==
    /\ pc = "done"
    /\ result.returned
    /\ \E n \in DOMAIN result.map :
         /\ Len(result.map[n]) >= 3
         /\ \E i, j \in 2..Len(result.map[n]) :
              i < j /\ Above(result.map[n][j].version, result.map[n][i].version)

\* --------------------------------------------------------------------- C14
\* C14: a pair of devDependencies is recorded by the rule of a pair of
\* dependencies: the map after it is process_dependency of the pair, the
\* map before it and the manifest path, so the field changes neither the
\* record nor its position, and both fields feed the one aggregate.
C14_CrossFieldMerge ==
    [][\A key \in world.names, value_str \in world.versions :
          (Declare(key, value_str) /\ pc = "devDeps") =>
             LET entry == EntryOrDefault(hash_map, key)
                 version == CleanVersion(value_str)
                 rec == [name |-> key, version |-> version, path |-> path]
             IN  hash_map'[key] =
                   IF Recorded(entry, version) THEN entry
                   ELSE IF entry # <<>> /\ Above(version, entry[1].version)
                        THEN <<rec>> \o entry
                        ELSE entry \o <<rec>>]_vars

\* The first manifest declared the name in dependencies and a higher
\* version of it in devDependencies: the later record is at the front.
C14_Witness ==
    /\ pc = "devDeps"
    /\ idx = 1
    /\ last.called
    /\ last.key \in DOMAIN hash_map
    /\ LET entry == hash_map[last.key]
       IN  /\ Len(entry) = 2
           /\ entry[1].version = CleanVersion(last.value_str)
           /\ entry[1].path = path
           /\ entry[2].path = path
           /\ Above(entry[1].version, entry[2].version)

\* --------------------------------------------------------------------- C15
\* C15: no name of the aggregate has an empty sequence, at any point of
\* the aggregation and in the map returned after filtering.
C15_NoEmptySequence ==
    /\ \A n \in DOMAIN hash_map : hash_map[n] # <<>>
    /\ result.returned => \A n \in DOMAIN result.map : result.map[n] # <<>>

\* The filter has removed a declared name, key and sequence, and has
\* retained another.
C15_Witness ==
    /\ pc = "done"
    /\ result.returned
    /\ DOMAIN result.map # {}
    /\ \E n \in world.names :
         arrivals[n] # <<>> /\ n \notin DOMAIN result.map

\* --------------------------------------------------------------------- C16
\* C16: manifests are processed one after the other in the order of the
\* path list, and within a manifest every pair of dependencies before any
\* pair of devDependencies: the position in the list moves by one, only
\* when the loop takes the next path; a manifest starts on dependencies,
\* goes on to devDependencies and from there back to the loop; pairs are
\* recorded only while one of the two fields is traversed, under the path
\* taken for that position.
C16_Step ==
    /\ idx' \in {idx, idx + 1}
    /\ idx' = idx + 1 <=> (pc = "loop" /\ pc' \in {"deps", "panicked"})
    /\ pc = "loop" => pc' \in {"loop", "deps", "panicked", "done"}
    /\ pc = "deps" => pc' \in {"deps", "devDeps"} /\ path' = path
    /\ pc = "devDeps" => pc' \in {"devDeps", "loop"} /\ path' = path
    /\ (hash_map' # hash_map /\ pc' # "done" /\ pc # "start") =>
         /\ pc \in {"deps", "devDeps"}
         /\ pc' = pc
         /\ \E n \in DOMAIN hash_map' :
              \E i \in 1..Len(hash_map'[n]) : hash_map'[n][i].path = path

C16_ProcessingOrder == [][C16_Step]_vars

\* The second manifest's devDependencies put a record behind one of the
\* first manifest.
C16_Witness ==
    /\ pc = "devDeps"
    /\ idx = 2
    /\ last.called
    /\ last.key \in DOMAIN hash_map
    /\ path = "p2"
    /\ LET entry == hash_map[last.key]
       IN  /\ Len(entry) = 2
           /\ entry[1].path = "p1"
           /\ entry[2].path = "p2"
           /\ entry[2].version = CleanVersion(last.value_str)

\* --------------------------------------------------------------------- C17
\* C17: clean_version returns the characters of its argument that are
\* ASCII digits or '.', each of them, in their order in the argument, and
\* nothing else; it returns for every argument.
KeptPositions(str) ==
    {i \in 1..Len(str) : str[i] \in Digits \cup {"."}}

C17_NormalizerResult ==
    (unit_fn = "clean_version" /\ unit_pc = "returned") =>
        ret[1] = Pick(arg, KeptPositions(arg), 1)

\* "^1.", a letter or a digit that is not ASCII, and "1" came back as
\* "1.1".
C17_Witness ==
    /\ unit_fn = "clean_version"
    /\ unit_pc = "returned"
    /\ Len(arg) = 5
    /\ arg[1] = "^"
    /\ arg[4] \in {"x", ArabicIndicThree}
    /\ ret[1] = <<"1", ".", "1">>

\* --------------------------------------------------------------------- C18
\* C18: clean_version applied to what clean_version returned returns it
\* unchanged.
C18_NormalizerIdempotent ==
    (unit_fn = "clean_version" /\ Len(ret) = 2) => ret[2] = ret[1]

\* The first call dropped characters, the second none.
C18_Witness ==
    /\ unit_fn = "clean_version"
    /\ Len(ret) = 2
    /\ ret[1] # <<>>
    /\ Len(ret[1]) < Len(arg)
    /\ ret[2] = ret[1]

\* --------------------------------------------------------------------- C19
\* C19: a version compared with a sequence whose first record has that
\* same version is not judged higher.
C19_ComparatorIrreflexive ==
    (/\ unit_fn = "is_new_version_higher"
     /\ unit_pc = "returned"
     /\ arg.entry[1].version = arg.new_version) => ret[1] = FALSE

\* 1.0.1 was compared with [1.0.1, 2.0.0].
C19_Witness ==
    /\ unit_fn = "is_new_version_higher"
    /\ unit_pc = "returned"
    /\ arg.new_version = <<"1", ".", "0", ".", "1">>
    /\ Len(arg.entry) = 2
    /\ arg.entry[1].version = arg.new_version
    /\ ret[1] = FALSE

\* --------------------------------------------------------------------- C20
\* C20: parse_ignores returns one name per line of the text, in order: the
\* lines are the stretches ended by a line feed, and what follows the last
\* line feed when it is not empty; the name is the line without the
\* whitespace at its two ends. The empty text gives no name.
LineFeeds(text) == {i \in 1..Len(text) : text[i] = "\n"}

NumLines(text) ==
    Cardinality(LineFeeds(text))
      + (IF text # <<>> /\ text[Len(text)] # "\n" THEN 1 ELSE 0)

\* Position of the k-th line feed; 0 for k = 0, past the end when there
\* are fewer.
NthLineFeed(text, k) ==
    IF k = 0 THEN 0
    ELSE IF k > Cardinality(LineFeeds(text)) THEN Len(text) + 1
    ELSE CHOOSE i \in LineFeeds(text) :
             Cardinality({j \in LineFeeds(text) : j <= i}) = k

LineOf(text, k) ==
    SubSeq(text, NthLineFeed(text, k - 1) + 1, NthLineFeed(text, k) - 1)

Trimmed(line) ==
    LET inked == {i \in 1..Len(line) : ~IsWhitespace(line[i])}
        first == CHOOSE i \in inked : \A j \in inked : i <= j
        final == CHOOSE i \in inked : \A j \in inked : j <= i
    IN  IF inked = {} THEN <<>> ELSE SubSeq(line, first, final)

C20_IgnoreSourceParsing ==
    (unit_fn = "parse_ignores" /\ unit_pc = "returned") =>
        /\ ret[1] = [k \in 1..NumLines(arg) |-> Trimmed(LineOf(arg, k))]
        /\ arg = <<>> => ret[1] = <<>>

\* " a", a line feed and "a " gave the names a, a.
C20_Witness ==
    /\ unit_fn = "parse_ignores"
    /\ unit_pc = "returned"
    /\ arg = <<" ", "a", "\n", "a", " ">>
    /\ ret[1] = <<<<"a">>, <<"a">>>>

\* --------------------------------------------------------------------- C21
\* C21: build_hash_map returns for a manifest without `dependencies`,
\* without `devDependencies` or without both; the map it leaves is the map
\* it was given after the string pairs of the fields that are there,
\* dependencies first, an absent field giving none; with neither field the
\* map is the one it was given.
StringPairs(field) ==
    IF field.kind = "object"
    THEN SelectSeq(field.pairs, LAMBDA pair : pair.value.is_str)
    ELSE <<>>

RECURSIVE Recording(_, _, _)
Recording(pairs, map, p) ==
    IF pairs = <<>> THEN map
    ELSE Recording(Tail(pairs),
             ProcessDependency(pairs[1].key, pairs[1].value.str, map, p), p)

C21_AbsentFields ==
    (unit_fn = "build_hash_map" /\ unit_pc = "returned") =>
        LET deps == arg.value.dependencies
            dev == arg.value.devDependencies
        IN  /\ ret[1] = Recording(StringPairs(deps) \o StringPairs(dev),
                                  arg.map, arg.path)
            /\ (deps.kind = "absent" /\ dev.kind = "absent") => ret[1] = arg.map

\* A manifest with devDependencies alone added a record to a name the map
\* already held.
C21_Witness ==
    /\ unit_fn = "build_hash_map"
    /\ unit_pc = "returned"
    /\ arg.value.dependencies.kind = "absent"
    /\ arg.value.devDependencies.kind = "object"
    /\ NameA \in DOMAIN arg.map
    /\ Len(ret[1][NameA]) = 2
    /\ ret[1][NameA][1].path = "p2"

\* --------------------------------------------------------------------- C22
\* C22: the same manifests given in two orders yield results with the same
\* names and, for each name, the same set of normalized versions.
VersionSet(entry) == {entry[i].version : i \in 1..Len(entry)}

C22_OrderIndependence ==
    (unit_fn = "find_duplicate_dependencies" /\ Len(ret) = 2) =>
        /\ DOMAIN ret[1] = DOMAIN ret[2]
        /\ \A n \in DOMAIN ret[1] : VersionSet(ret[1][n]) = VersionSet(ret[2][n])

\* Three manifests in two orders: the same name with the same versions,
\* in another order of records, one version with another origin.
C22_Witness ==
    /\ unit_fn = "find_duplicate_dependencies"
    /\ Len(ret) = 2
    /\ Len(arg.paths) = 3
    /\ NameA \in DOMAIN ret[1]
    /\ VersionsOf(ret[1][NameA]) # VersionsOf(ret[2][NameA])
    /\ \E i \in 1..Len(ret[1][NameA]), j \in 1..Len(ret[2][NameA]) :
         /\ ret[1][NameA][i].version = ret[2][NameA][j].version
         /\ ret[1][NameA][i].path # ret[2][NameA][j].path

\* --------------------------------------------------------------------- C23
\* C23: the numbers of a version are its first three components, a
\* component that is missing or no decimal numeral being 0 and the
\* components after the third not counting. A version that is not yet
\* recorded for the name and has the numbers of the first record ("1.0"
\* after "1.0.0") gets a record of its own, at the back of the sequence.
NumberAt(version, n) ==
    LET parts == SplitDot(version)
    IN  IF n <= Len(parts) /\ DecimalPart(parts[n])
        THEN IntegerOf(parts[n]) ELSE <<>>

Numbers(version) ==
    <<NumberAt(version, 1), NumberAt(version, 2), NumberAt(version, 3)>>

C23_EqualNumbersDistinctText ==
    (unit_fn = "process_dependency" /\ unit_pc = "returned") =>
        LET entry == arg.map[arg.key]
            version == CleanVersion(arg.value_str)
            rec == [name |-> arg.key, version |-> version, path |-> arg.path]
        IN  (/\ ~Recorded(entry, version)
             /\ Numbers(version) = Numbers(entry[1].version))
            => ret[1][arg.key] = entry \o <<rec>>

\* "1.0" came after "1.0.0": two records, "1.0" the second.
C23_Witness ==
    /\ unit_fn = "process_dependency"
    /\ unit_pc = "returned"
    /\ arg.value_str = <<"1", ".", "0">>
    /\ VersionsOf(ret[1][NameA]) = <<Plain_1_0_0, <<"1", ".", "0">>>>
    /\ ret[1][NameA][2].path = "p2"

\* --------------------------------------------------------------------- C24
\* C24: no returned path has a component that is exactly node_modules, and
\* every returned path is that of a regular file named package.json; a
\* component that only contains the text, no_node_modules, excludes
\* nothing: the manifest below it is returned unless an ignore entry with
\* '/' is found in its path.
HasComponent(p, name) ==
    \E k \in 0..(Len(p) - Len(name)) :
        /\ SubSeq(p, k + 1, k + Len(name)) = name
        /\ k = 0 \/ p[k] = "/"
        /\ k + Len(name) = Len(p) \/ p[k + Len(name) + 1] = "/"

RegularFilesNamedPackageJson ==
    {EntryPath(dir_path, e) :
        e \in {f \in DOMAIN Tree : Tree[f] = "file" /\ f[Len(f)] = PackageJson}}

BelowNoNodeModules == EntryPath(dir_path, <<Src, NoNodeModules, PackageJson>>)

C24_NodeModulesExclusion ==
    /\ \A i \in 1..Len(files) :
         /\ ~HasComponent(files[i], NodeModules)
         /\ files[i] \in RegularFilesNamedPackageJson
    /\ (/\ lookup_pc = "done"
        /\ \A i \in 1..Len(lookup_ignores) :
             ContainsChar(lookup_ignores[i], "/") =>
                 ~Contains(BelowNoNodeModules, lookup_ignores[i]))
       => \E i \in 1..Len(files) : files[i] = BelowNoNodeModules

\* The walk is over: ./src/no_node_modules/package.json is returned,
\* ./node_modules/p/package.json is not, nor the directory
\* ./@s/package.json.
C24_Witness ==
    /\ lookup_pc = "done"
    /\ dir_path = Dot
    /\ lookup_ignores = <<>>
    /\ Len(files) = 4
    /\ \E i \in 1..Len(files) : files[i] = BelowNoNodeModules
    /\ \A i \in 1..Len(files) :
         /\ files[i] # EntryPath(Dot, <<NodeModules, Pkg, PackageJson>>)
         /\ files[i] # EntryPath(Dot, <<Scope, PackageJson>>)

\* --------------------------------------------------------------------- C25
\* C25: a process that reaches its exit call has status 0 when the silent
\* flag is set, whatever was found; without the flag its status is the
\* number of names in the result, so it is 0 exactly when there is none.
C25_ExitStatus ==
    main_pc = "exited" =>
        /\ silent => exit_status = 0
        /\ ~silent =>
             /\ exit_status = duplicates_len
             /\ exit_status = 0 <=> duplicates_len = 0

====
